---- MODULE Spec2Model ----
(***************************************************************************)
(* Model of plit.subplots: SimpleMatrixPlotter (the grid allocator of one  *)
(* montage page), MontagePager (pagination, flush, manifest) and the       *)
(* chopping of a rendered montage into individual images (_save_pieces).   *)
(*                                                                         *)
(* Four specifications share  the variables:                               *)
(*   Spec      the pager driven by pop(subplot_id) and savefig() calls     *)
(*   SpecGrid  one SimpleMatrixPlotter driven directly (pop/trim/savefig)  *)
(*   SpecDec   one run of _save_pieces over a rendered montage             *)
(*   SpecCols  the construction of one SimpleMatrixPlotter(figcount, ncols)*)
(* Python exceptions are recorded by name in an err field; a call that     *)
(* raises keeps every assignment the code made before the raise.           *)
(***************************************************************************)
EXTENDS Integers, Sequences, FiniteSets, TLC

VARIABLES
    page_size,   \* MontagePager.page_size
    ncols_arg,   \* kwargs["ncols"] handed to every SimpleMatrixPlotter; 0 is None
    smp,         \* MontagePager.smp, the current SimpleMatrixPlotter
    mp_i,        \* MontagePager._i, sequence number of the current montage
    itemid,      \* MontagePager._itemid
    montages,    \* log of montage files written (page index), in write order
    crops,       \* log of individual files written <<page, slot>>, in write order
    manifest,    \* rows written to mappings.csv after the header
    rasters,     \* number of fig.savefig() rasterizations performed
    calls,       \* number of MontagePager.pop calls made so far
    log,         \* the subplot_id of every pop call, in call order
    nflush,      \* number of explicit MontagePager.savefig calls made so far
    closed,      \* an explicit savefig was called on a page with >= 1 issued slot
    lastop,      \* "init", "pop", "flush" or "del": the call that produced this state
    err,         \* exception raised by the last call, "none" if it returned
    ret,         \* <<k>> when the last pop returned axes k of its page, else <<>>
    raised,      \* some call made so far raised an exception
    events,      \* what the pager did to figures, files and the csv stream, in order
    grid,        \* SpecGrid: a SimpleMatrixPlotter used directly
    dec          \* SpecDec: the state of one _save_pieces run

vars == <<page_size, ncols_arg, smp, mp_i, itemid, montages, crops, manifest,
          rasters, calls, log, nflush, closed, lastop, err, ret, raised, events,
          grid, dec>>

pagerVars == <<page_size, ncols_arg, smp, mp_i, itemid, montages, crops, manifest,
               rasters, calls, log, nflush, closed, lastop, err, ret, raised,
               events>>

----------------------------------------------------------------------------
(* Bounds of the model *)

MaxPageSize == 3     \* page_size ranges over 1..MaxPageSize
MaxColsArg == 2      \* explicit ncols ranges over 1..MaxColsArg (0: not given)
MaxCalls == 4        \* pop calls per run
MaxFlush == 2        \* explicit savefig calls per run
MaxFigcount == 4     \* figcount of the directly driven SimpleMatrixPlotter
MaxGridCalls == 7    \* pop calls on the directly driven SimpleMatrixPlotter
CellPx == 6          \* pixels per rendered grid cell, each direction
MaxSlack == 1        \* extra pixels of the bitmap beyond whole cells
MaxCapacity == 450   \* figcount of the plotters constructed under SpecCols

\* subplot_id values handed to pop: a plain title and one that needs escaping
Idents == {"a", "\n"}

(* Program constants *)
MinDefaultCols == 5
MaxDefaultCols == 20
PadPixels == 4

----------------------------------------------------------------------------
(* Arithmetic helpers *)

Min(a, b) == IF a < b THEN a ELSE b
Max(a, b) == IF a > b THEN a ELSE b

CeilDiv(n, p) == (n + p - 1) \div p

\* int(math.sqrt(n)) for n >= 0
isqrt(n) == CHOOSE r \in 0..n : r * r <= n /\ (r + 1) * (r + 1) > n

----------------------------------------------------------------------------
(* SimpleMatrixPlotter.  A plotter is a record                             *)
(*   i      _i, index of the current free subplot                          *)
(*   naxes  len(self.axes)                                                 *)
(*   fig    TRUE while self.fig is a figure, FALSE once it is None         *)
(*   nrows, ncols  the shape of the gridspec the axes were created with    *)

\* round(math.sqrt(n)) for n >= 1
round_sqrt(n) == CHOOSE r \in 0..n : r * r - r < n /\ n <= r * r + r

\* ncols = min(max(5, int(math.sqrt(figcount))), 20)
default_ncolsRounded(figcount) ==
    Min(Max(MinDefaultCols, round_sqrt(figcount)), MaxDefaultCols)
default_ncols(figcount) == Min(Max(MinDefaultCols, isqrt(figcount)), MaxDefaultCols)

\* nrows = figcount // ncols + (figcount % ncols > 0)
grid_nrowsFloor(figcount, ncols) == figcount \div ncols
grid_nrows(figcount, ncols) ==
    (figcount \div ncols) + (IF figcount % ncols > 0 THEN 1 ELSE 0)

SMP_init(figcount, ncolsArg) ==
    LET ncols == IF ncolsArg = 0 THEN default_ncols(figcount) ELSE ncolsArg
        nrows == grid_nrows(figcount, ncols)
    IN  [i |-> 0, naxes |-> nrows * ncols, fig |-> TRUE,
         nrows |-> nrows, ncols |-> ncols]

\* properties ncols / nrows: 0 when there are no axes left
SMP_ncols(s) == IF s.naxes < 1 THEN 0 ELSE s.ncols
SMP_nrows(s) == IF s.naxes < 1 THEN 0 ELSE s.nrows

\* self.axes[self._i] is a valid list index
AxesIndexInclusive(i, naxes) == i <= naxes
AxesIndex(i, naxes) == i < naxes

\* pop(): axes[_i] (IndexError), plt.figure(self.fig.number) (AttributeError
\* when fig is None), then _i += 1
SMP_pop(s) ==
    IF ~AxesIndex(s.i, s.naxes)
    THEN [smp |-> s, err |-> "IndexError", ret |-> <<>>]
    ELSE IF ~s.fig
    THEN [smp |-> s, err |-> "AttributeError", ret |-> <<>>]
    ELSE [smp |-> [s EXCEPT !.i = @ + 1], err |-> "none", ret |-> <<s.i>>]

\* trim(): delaxes every axes[_i:] (needs the figure), then axes = axes[:_i]
SMP_trim(s) ==
    IF s.i < s.naxes /\ ~s.fig
    THEN [smp |-> s, err |-> "AttributeError"]
    ELSE [smp |-> [s EXCEPT !.naxes = Min(s.i, s.naxes)], err |-> "none"]

\* savefig(): trim, fig.savefig (AttributeError when fig is None), release
SMP_savefigKeepsFigure(s) == [smp |-> s, err |-> "none"]
SMP_savefig(s) ==
    LET t == SMP_trim(s)
    IN  IF t.err # "none" THEN t
        ELSE IF ~t.smp.fig THEN [smp |-> t.smp, err |-> "AttributeError"]
        ELSE [smp |-> [t.smp EXCEPT !.fig = FALSE], err |-> "none"]

----------------------------------------------------------------------------
(* _save_pieces: geometry of the chopping *)

\* true_nrows and true_ncols of subplot_size(); the floor divisions by
\* self.smp.nrows and the modulo by self.smp.ncols raise ZeroDivisionError
subplot_grid(cnt, nrows, ncols) ==
    IF nrows = 0 \/ ncols = 0
    THEN [err |-> "ZeroDivisionError", true_nrows |-> 0, true_ncols |-> 0]
    ELSE [err |-> "none",
          true_nrows |-> (cnt \div nrows) + (IF cnt % ncols # 0 THEN 1 ELSE 0),
          true_ncols |-> Min(ncols, cnt)]

\* subplot_size(): h = im.height // true_nrows, w = im.width // true_ncols
subplot_size(cnt, nrows, ncols, W, H) ==
    LET g == subplot_grid(cnt, nrows, ncols)
    IN  IF g.err # "none" \/ g.true_nrows = 0 \/ g.true_ncols = 0
        THEN [err |-> "ZeroDivisionError", h |-> 0, w |-> 0]
        ELSE [err |-> "none", h |-> H \div g.true_nrows, w |-> W \div g.true_ncols]

\* fixed_bbox(i): row = i // nrows, col = i % ncols
fixed_bbox(i, nrows, ncols, h, w) ==
    LET row == i \div nrows
        col == i % ncols
    IN  [left |-> col * w, up |-> row * h,
         right |-> col * w + w, bottom |-> row * h + h]

\* pad(left, up, right, bottom, pixels=4); im is the montage (W x H)
padWide(left, up, right, bottom, W, H) ==
    [left |-> Min(left - 2 * PadPixels, 0), up |-> Min(up - PadPixels, 0),
     right |-> Min(right + PadPixels, W), bottom |-> Min(bottom + PadPixels, H)]
pad(left, up, right, bottom, W, H) ==
    [left |-> Min(left - PadPixels, 0), up |-> Min(up - PadPixels, 0),
     right |-> Min(right + PadPixels, W), bottom |-> Min(bottom + PadPixels, H)]

\* tighten(im): bbox is <<>> when getbbox() returns None, and pad(*None)
\* raises TypeError; else the crop box pad(*bbox)
tighten(bbox, W, H) ==
    IF bbox = <<>>
    THEN [err |-> "TypeError", box |-> <<>>]
    ELSE [err |-> "none",
          box |-> <<pad(bbox[1], bbox[2], bbox[3], bbox[4], W, H)>>]

\* the edge coordinates tried for a content box along a side of len pixels:
\* the ends, one pixel in, and the pad width
EdgeCoords(len) == {x \in {0, 1, PadPixels, len - 1, len} : 0 <= x /\ x <= len}

\* values getbbox() can return on a w x h crop that has content
BBoxes(w, h) ==
    {q \in EdgeCoords(w) \X EdgeCoords(h) \X EdgeCoords(w) \X EdgeCoords(h) :
        q[1] < q[3] /\ q[2] < q[4]}

----------------------------------------------------------------------------
(* MontagePager *)

\* str(itemid).encode("unicode-escape").decode("utf-8")
unicode_escape(s) == IF s = "\n" THEN "\\n" ELSE s

\* pop(): if self.smp.i >= self.page_size
OverflowStrict(i, size) == i > size
Overflow(i, size) == i >= size

\* savefig(): if subplot_cnt < 1: return
EmptyPageNever(cnt) == cnt < 0
EmptyPage(cnt) == cnt < 1

\* _save_pieces as the pager sees it: the crop files written and the
\* exception raised.  blank is the index of the first cell whose crop has no
\* content (cnt: every cell has content).
save_pieces(s, page, cnt, blank) ==
    LET g == subplot_grid(cnt, SMP_nrows(s), SMP_ncols(s))
        k == Min(blank, cnt)
    IN  IF g.err # "none" \/ g.true_nrows = 0 \/ g.true_ncols = 0
        THEN [crops |-> <<>>, err |-> "ZeroDivisionError"]
        ELSE [crops |-> [j \in 1..k |-> <<page, j - 1>>],
              err |-> IF blank < cnt THEN "TypeError" ELSE "none"]

\* _save_csv: one row per identifier, then self._itemid.clear()
save_csv(s, page, items) ==
    LET ncols == SMP_ncols(s)
    IN  IF ncols = 0 /\ items # <<>>
        THEN [rows |-> <<>>, itemid |-> items, err |-> "ZeroDivisionError"]
        ELSE [rows |-> [j \in 1..Len(items) |->
                          [individual |-> <<page, j - 1>>,
                           title |-> unicode_escape(items[j]),
                           montage |-> page,
                           subplot |-> j - 1,
                           row |-> (j - 1) \div ncols,
                           col |-> (j - 1) % ncols]],
              itemid |-> <<>>, err |-> "none"]

\* What savefig() leaves behind, as a record of the fields it can change.
Outcome(s, items, mont, crp, man, ras, e) ==
    [smp |-> s, itemid |-> items, montages |-> mont, crops |-> crp,
     manifest |-> man, rasters |-> ras, err |-> e]

\* MontagePager.savefig()
savefig(blank) ==
    LET cnt == smp.i
    IN  IF ~smp.fig     \* self.smp.fig.get_facecolor() on None
        THEN Outcome(smp, itemid, montages, crops, manifest, rasters, "AttributeError")
        ELSE IF EmptyPage(cnt)
        THEN Outcome(smp, itemid, montages, crops, manifest, rasters, "none")
        ELSE
          LET sv == SMP_savefig(smp)
              mont == Append(montages, mp_i)
              pcs == save_pieces(sv.smp, mp_i, cnt, blank)
              csv == save_csv(sv.smp, mp_i, itemid)
          IN  IF sv.err # "none"
              THEN Outcome(sv.smp, itemid, montages, crops, manifest, rasters, sv.err)
              ELSE IF pcs.err # "none"
              THEN Outcome(sv.smp, itemid, mont, crops \o pcs.crops, manifest,
                           rasters + 1, pcs.err)
              ELSE Outcome(sv.smp, csv.itemid, mont, crops \o pcs.crops,
                           manifest \o csv.rows, rasters + 1, csv.err)

\* one entry of events: what was done, for which page, for which slot
Ev(e, page, slot) == [e |-> e, page |-> page, slot |-> slot]

\* the order in which savefig() does its work: facecolor read, smp.savefig
\* (rasterize, then release the figure), im.save, _save_pieces, _save_csv
flush_orderCsvFirst(bg, raster, montage, pieces, rows) ==
    bg \o raster \o montage \o rows \o pieces
flush_order(bg, raster, montage, pieces, rows) ==
    bg \o raster \o montage \o pieces \o rows

\* the events of one savefig() call
savefig_events(blank) ==
    LET f == savefig(blank)
        ncrops == Len(f.crops) - Len(crops)
        nrows == Len(f.manifest) - Len(manifest)
    IN  IF ~smp.fig THEN <<>>
        ELSE IF EmptyPage(smp.i) THEN <<Ev("bg", mp_i, 0)>>
        ELSE flush_order(
               <<Ev("bg", mp_i, 0)>>,
               <<Ev("raster", mp_i, 0), Ev("release", mp_i, 0)>>,
               <<Ev("montage", mp_i, 0)>>,
               [j \in 1..ncrops |-> Ev("crop", mp_i, j - 1)],
               [j \in 1..nrows |-> Ev("row", mp_i, j - 1)]
                 \o (IF f.err = "none" THEN <<Ev("csvflush", mp_i, 0)>> ELSE <<>>))

\* pop(): self._i += 1 after an overflow
NextIndexStuck(i, ov) == i
NextIndexAlways(i, ov) == i + 1
NextIndex(i, ov) == IF ov THEN i + 1 ELSE i

\* values of grid and dec while the pager alone is driven
GridIdle == [lastop |-> "off"]
DecIdle == [pc |-> "off"]

Init ==
    /\ page_size \in 1..MaxPageSize
    /\ ncols_arg \in 0..MaxColsArg
    /\ smp = SMP_init(page_size, ncols_arg)
    /\ mp_i = 0
    /\ itemid = <<>>
    /\ montages = <<>>
    /\ crops = <<>>
    /\ manifest = <<>>
    /\ rasters = 0
    /\ calls = 0
    /\ log = <<>>
    /\ nflush = 0
    /\ closed = FALSE
    /\ lastop = "init"
    /\ err = "none"
    /\ ret = <<>>
    /\ raised = FALSE
    /\ events = <<>>
    /\ grid = GridIdle
    /\ dec = DecIdle

\* MontagePager.pop(subplot_id); blank describes the rendered page when the
\* call overflows into savefig()
Pop(id, blank) ==
    /\ lastop # "del"
    /\ calls < MaxCalls
    /\ LET ov == Overflow(smp.i, page_size)
           f == IF ov THEN savefig(blank)
                ELSE Outcome(smp, itemid, montages, crops, manifest, rasters, "none")
           s0 == IF ov THEN SMP_init(page_size, ncols_arg) ELSE smp
           p == SMP_pop(s0)
       IN  /\ montages' = f.montages
           /\ crops' = f.crops
           /\ manifest' = f.manifest
           /\ rasters' = f.rasters
           /\ events' = IF ov THEN events \o savefig_events(blank) ELSE events
           /\ IF f.err # "none"
              THEN /\ smp' = f.smp
                   /\ itemid' = f.itemid
                   /\ mp_i' = mp_i
                   /\ err' = f.err
                   /\ ret' = <<>>
              ELSE /\ smp' = p.smp
                   /\ itemid' = Append(f.itemid, id)
                   /\ mp_i' = NextIndex(mp_i, ov)
                   /\ err' = p.err
                   /\ ret' = p.ret
    /\ calls' = calls + 1
    /\ log' = Append(log, id)
    /\ lastop' = "pop"
    /\ raised' = (raised \/ err' # "none")
    /\ UNCHANGED <<page_size, ncols_arg, nflush, closed, grid, dec>>

\* an explicit MontagePager.savefig() call
Flush(blank) ==
    /\ lastop # "del"
    /\ nflush < MaxFlush
    /\ LET f == savefig(blank)
       IN  /\ smp' = f.smp
           /\ itemid' = f.itemid
           /\ montages' = f.montages
           /\ crops' = f.crops
           /\ manifest' = f.manifest
           /\ rasters' = f.rasters
           /\ err' = f.err
    /\ events' = events \o savefig_events(blank)
    /\ raised' = (raised \/ err' # "none")
    /\ ret' = <<>>
    /\ nflush' = nflush + 1
    /\ closed' = (closed \/ smp.i >= 1)
    /\ lastop' = "flush"
    /\ UNCHANGED <<page_size, ncols_arg, mp_i, calls, log, grid, dec>>

\* the cell-content inputs that matter to a flush of the current page
Blanks == IF smp.fig /\ smp.i >= 1 THEN 0..smp.i ELSE {0}

\* __del__: the pager is discarded; only the csv file is closed
Del ==
    /\ lastop # "del"
    /\ lastop' = "del"
    /\ events' = Append(events, Ev("csvclose", mp_i, 0))
    /\ err' = "none"
    /\ ret' = <<>>
    /\ UNCHANGED <<page_size, ncols_arg, smp, mp_i, itemid, montages, crops,
                   manifest, rasters, calls, log, nflush, closed, raised, grid, dec>>

Next ==
    \/ \E id \in Idents, blank \in Blanks : Pop(id, blank)
    \/ \E blank \in Blanks : Flush(blank)
    \/ Del

Spec == Init /\ [][Next]_vars

----------------------------------------------------------------------------
(* Properties of the pager, checked under Spec *)

\* the state right after the one closing savefig() of a run of pop calls
FullRun == lastop = "flush" /\ nflush = 1

\* C1: a run of N pop calls followed by one closing savefig() has written
\* exactly ceil(N / page_size) montage pages.
C1_PagesAreCeil ==
    FullRun => Len(montages) = CeilDiv(calls, page_size)

\* C2: after a full run the manifest has one row per pop call, and the rows
\* of each page carry slot indices 0..n-1 with the k-th identifier issued on
\* the page at slot k (the identifier that overflows is slot 0 of the next page).
C2_ManifestMatchesCalls ==
    FullRun =>
        /\ Len(manifest) = calls
        /\ \A r \in 1..Len(manifest) :
              /\ manifest[r].subplot = (r - 1) % page_size
              /\ manifest[r].montage = (r - 1) \div page_size
              /\ manifest[r].title = unicode_escape(log[r])

\* C3: a savefig() right after a savefig() that returned is a no-op that
\* returns normally: nothing is rasterized or written and nothing changes.
C3_FlushIdempotent ==
    [][(lastop = "flush" /\ err = "none" /\ nflush' = nflush + 1) =>
          /\ err' = "none"
          /\ UNCHANGED <<smp, mp_i, itemid, montages, crops, manifest, rasters>>]_vars

\* C4: savefig() on a page that has issued no slot returns normally and
\* rasterizes nothing, writes no montage, crop or manifest row, and leaves
\* the page index unchanged.
C4_EmptyFlushIsNoOp ==
    [][(smp.i = 0 /\ nflush' = nflush + 1) =>
          /\ err' = "none"
          /\ UNCHANGED <<smp, mp_i, itemid, montages, crops, manifest, rasters>>]_vars

C4_Witness ==
    /\ lastop = "flush" /\ err = "none" /\ smp.i = 0
    /\ manifest = <<>> /\ montages = <<>> /\ crops = <<>> /\ mp_i = 0

\* C5: once an explicit savefig() was called on a page with at least one
\* issued slot, every later pop raises and returns no axes.
C5_PopAfterCloseFails ==
    [][(closed /\ calls' = calls + 1) =>
          /\ err' \in {"IndexError", "AttributeError"}
          /\ ret' = <<>>]_vars

C5_Witness ==
    closed /\ lastop = "pop" /\ err = "IndexError" /\ montages # <<>> /\ ret = <<>>

\* C6: pop never returns axes of a page that already had page_size issued
\* slots, so no page ever holds more than page_size subplots.
C6_NeverIntoFullPage ==
    /\ smp.i <= page_size
    /\ (lastop = "pop" /\ ret # <<>>) => (ret[1] < page_size /\ smp.i = ret[1] + 1)

C6_Witness ==
    lastop = "pop" /\ ret = <<0>> /\ mp_i = 1 /\ Len(montages) = 1 /\ err = "none"

----------------------------------------------------------------------------
(* SpecGrid: one SimpleMatrixPlotter(figcount, ncols) driven directly *)

\* the pager while it is not driven: MontagePager(page_size=1), untouched
PagerIdle ==
    /\ page_size = 1 /\ ncols_arg = 0 /\ smp = SMP_init(1, 0) /\ mp_i = 0
    /\ itemid = <<>> /\ montages = <<>> /\ crops = <<>> /\ manifest = <<>>
    /\ rasters = 0 /\ calls = 0 /\ log = <<>> /\ nflush = 0 /\ closed = FALSE
    /\ lastop = "init" /\ err = "none" /\ ret = <<>>
    /\ raised = FALSE /\ events = <<>>

InitGrid ==
    /\ PagerIdle
    /\ dec = DecIdle
    /\ \E figcount \in 1..MaxFigcount, ncolsArg \in 0..MaxColsArg :
          grid = [figcount |-> figcount, smp |-> SMP_init(figcount, ncolsArg),
                  calls |-> 0, lastop |-> "init", err |-> "none", ret |-> <<>>]

GridPop ==
    /\ grid.calls < MaxGridCalls
    /\ LET p == SMP_pop(grid.smp)
       IN  grid' = [grid EXCEPT !.smp = p.smp, !.calls = @ + 1, !.lastop = "pop",
                                !.err = p.err, !.ret = p.ret]
    /\ UNCHANGED <<pagerVars, dec>>

GridTrim ==
    /\ LET r == SMP_trim(grid.smp)
       IN  grid' = [grid EXCEPT !.smp = r.smp, !.lastop = "trim",
                                !.err = r.err, !.ret = <<>>]
    /\ UNCHANGED <<pagerVars, dec>>

GridSavefig ==
    /\ LET r == SMP_savefig(grid.smp)
       IN  grid' = [grid EXCEPT !.smp = r.smp, !.lastop = "savefig",
                                !.err = r.err, !.ret = <<>>]
    /\ UNCHANGED <<pagerVars, dec>>

NextGrid == GridPop \/ GridTrim \/ GridSavefig

SpecGrid == InitGrid /\ [][NextGrid]_vars

----------------------------------------------------------------------------
(* SpecDec: one run of _save_pieces(im, subplot_cnt, bg_rgb) *)

\* the montage of n subplots on a grid with ncols columns, as rendered after
\* trim(): whole cells of CellPx pixels plus sw, sh pixels of margin
InitDec ==
    /\ PagerIdle
    /\ grid = GridIdle
    /\ \E figcount \in 1..MaxFigcount, ncolsArg \in 0..MaxColsArg,
          sw \in 0..MaxSlack, sh \in 0..MaxSlack :
         LET s == SMP_init(figcount, ncolsArg)
         IN  \E n \in 1..figcount :
               dec = [nrows |-> s.nrows, ncols |-> s.ncols, n |-> n,
                      W |-> Min(s.ncols, n) * CellPx + sw,
                      H |-> CeilDiv(n, s.ncols) * CellPx + sh,
                      pc |-> "start", i |-> 0, h |-> 0, w |-> 0,
                      boxes |-> <<>>, nobbox |-> FALSE, bbox |-> <<>>,
                      tight |-> <<>>,
                      saved |-> 0, err |-> "none"]

\* subplot_h, subplot_w = subplot_size()
DecSize ==
    /\ dec.pc = "start"
    /\ LET sz == subplot_size(dec.n, dec.nrows, dec.ncols, dec.W, dec.H)
       IN  dec' = [dec EXCEPT !.h = sz.h, !.w = sz.w, !.err = sz.err,
                              !.pc = IF sz.err = "none" THEN "loop" ELSE "raised"]
    /\ UNCHANGED <<pagerVars, grid>>

\* one iteration of the loop: crop fixed_bbox(i), tighten it, save it.
\* bbox is what getbbox() finds in the crop, <<>> for None.
DecCrop(bbox) ==
    /\ dec.pc = "loop"
    /\ LET fb == fixed_bbox(dec.i, dec.nrows, dec.ncols, dec.h, dec.w)
           t == tighten(bbox, dec.W, dec.H)
       IN  IF t.err # "none"
           THEN dec' = [dec EXCEPT !.boxes = Append(@, fb), !.nobbox = TRUE,
                                   !.bbox = bbox, !.tight = <<>>, !.err = t.err, !.pc = "raised"]
           ELSE dec' = [dec EXCEPT !.boxes = Append(@, fb), !.nobbox = FALSE,
                                   !.bbox = bbox, !.tight = t.box, !.saved = @ + 1, !.i = @ + 1,
                                   !.pc = IF dec.i + 1 = dec.n THEN "done" ELSE "loop"]
    /\ UNCHANGED <<pagerVars, grid>>

NextDec ==
    \/ DecSize
    \/ \E bbox \in BBoxes(dec.w, dec.h) \cup {<<>>} : DecCrop(bbox)

SpecDec == InitDec /\ [][NextDec]_vars

----------------------------------------------------------------------------
(* Properties of the chopping, checked under SpecDec *)

Inside(b, W, H) ==
    /\ 0 <= b.left /\ b.left < b.right /\ b.right <= W
    /\ 0 <= b.up /\ b.up < b.bottom /\ b.bottom <= H

Overlap(a, b) ==
    /\ a.left < b.right /\ b.left < a.right
    /\ a.up < b.bottom /\ b.up < a.bottom

DecRunning == dec.pc \in {"loop", "done", "raised"}

\* C7: the fixed boxes cut for slots 0..n-1 lie inside the W x H bitmap and
\* no two of them overlap.
C7_FixedBoxesTile ==
    DecRunning =>
        \A j \in 1..Len(dec.boxes) :
            /\ Inside(dec.boxes[j], dec.W, dec.H)
            /\ \A k \in 1..Len(dec.boxes) :
                  k # j => ~Overlap(dec.boxes[j], dec.boxes[k])

\* C8: when a crop has a content bounding box, the padded box handed to
\* crop() stays within the fixed cell grown by the 4 pixel pad on each side
\* (crop coordinates: the cell is (0, 0, w, h)).
C8_TightWithinPaddedCell ==
    (DecRunning /\ dec.tight # <<>>) =>
        LET b == dec.tight[1]
        IN  /\ b.left >= 0 - PadPixels
            /\ b.up >= 0 - PadPixels
            /\ b.right <= dec.w + PadPixels
            /\ b.bottom <= dec.h + PadPixels

C8_Witness ==
    /\ DecRunning /\ dec.tight # <<>> /\ dec.saved >= 1
    /\ dec.tight[1].left = 0 - PadPixels
    /\ dec.tight[1].right = dec.w + PadPixels

\* C9: a crop without any content is not an error: the fixed box is used as
\* the crop, the crop is saved and the loop goes on.
C9_BlankCropFallsBack ==
    (DecRunning /\ dec.nobbox) =>
        /\ dec.err = "none"
        /\ dec.saved = Len(dec.boxes)
        /\ dec.tight = <<[left |-> 0, up |-> 0, right |-> dec.w, bottom |-> dec.h]>>

----------------------------------------------------------------------------
(* Properties of the grid allocator, checked under SpecGrid *)

GridOn == grid.lastop # "off"

\* C10, as claimed: the index never exceeds the requested figcount, and a
\* pop at index = figcount raises instead of issuing a slot.
C10_IndexWithinFigcount ==
    GridOn =>
        /\ 0 <= grid.smp.i /\ grid.smp.i <= grid.figcount
        /\ (grid.lastop = "pop" /\ grid.ret # <<>>) => grid.ret[1] < grid.figcount

\* C10, amended: the index never exceeds the number of allocated cells
\* nrows * ncols; a pop returns the cell at the old index, which is below
\* nrows * ncols, and a pop at index = nrows * ncols raises IndexError and
\* leaves the index where it was.
C10_IndexWithinGrid ==
    [][(GridOn /\ grid'.calls = grid.calls + 1) =>
          LET cells == grid.smp.nrows * grid.smp.ncols
          IN  /\ 0 <= grid'.smp.i /\ grid'.smp.i <= cells
              /\ grid'.ret # <<>> =>
                    /\ grid'.ret = <<grid.smp.i>> /\ grid.smp.i < cells
                    /\ grid'.smp.i = grid.smp.i + 1 /\ grid'.err = "none"
              /\ grid.smp.i = cells =>
                    /\ grid'.err = "IndexError" /\ grid'.ret = <<>>
                    /\ grid'.smp.i = grid.smp.i]_vars

C10_Witness ==
    /\ GridOn /\ grid.lastop = "pop" /\ grid.err = "IndexError"
    /\ grid.smp.i = grid.smp.nrows * grid.smp.ncols
    /\ grid.smp.i > grid.figcount /\ grid.smp.fig

----------------------------------------------------------------------------
(* SpecCols: SimpleMatrixPlotter(figcount, ncols) is constructed *)

InitCols ==
    /\ PagerIdle
    /\ dec = DecIdle
    /\ \E figcount \in 1..MaxCapacity, ncolsArg \in 0..MaxColsArg :
          grid = [lastop |-> "args", figcount |-> figcount, ncolsArg |-> ncolsArg]

\* SimpleMatrixPlotter.__init__
GridNew ==
    /\ grid.lastop = "args"
    /\ grid' = [figcount |-> grid.figcount, ncolsArg |-> grid.ncolsArg,
                smp |-> SMP_init(grid.figcount, grid.ncolsArg),
                calls |-> 0, lastop |-> "init", err |-> "none", ret |-> <<>>]
    /\ UNCHANGED <<pagerVars, dec>>

NextCols == GridNew

SpecCols == InitCols /\ [][NextCols]_vars

GridBuilt == grid.lastop = "init"

\* C11: with an explicit ncols the grid has ncols columns and
\* nrows = ceil(figcount / ncols) rows: nrows * ncols >= figcount, and one
\* row less would not hold figcount cells.
C11_RowsAreCeil ==
    (GridBuilt /\ grid.ncolsArg # 0) =>
        /\ grid.smp.ncols = grid.ncolsArg
        /\ grid.smp.nrows * grid.smp.ncols >= grid.figcount
        /\ (grid.smp.nrows - 1) * grid.smp.ncols < grid.figcount
        /\ grid.smp.naxes = grid.smp.nrows * grid.smp.ncols

C11_Witness ==
    /\ GridBuilt /\ grid.ncolsArg = 2 /\ grid.figcount = 7
    /\ grid.smp.nrows = 4 /\ grid.smp.naxes = 8

\* C12, as claimed: without ncols the grid has clip(round(sqrt(figcount)),
\* 5, 20) columns.
C12_ColsAreRoundedSqrt ==
    (GridBuilt /\ grid.ncolsArg = 0) =>
        LET c == grid.figcount
            k == grid.smp.ncols
        IN  /\ MinDefaultCols <= k /\ k <= MaxDefaultCols
            /\ k > MinDefaultCols => k * k - k < c
            /\ k < MaxDefaultCols => c <= k * k + k

\* C12, amended: without ncols the grid has clip(floor(sqrt(figcount)), 5, 20)
\* columns: the square root is truncated, not rounded to the nearest integer.
C12_ColsAreTruncatedSqrt ==
    (GridBuilt /\ grid.ncolsArg = 0) =>
        LET c == grid.figcount
            k == grid.smp.ncols
        IN  /\ MinDefaultCols <= k /\ k <= MaxDefaultCols
            /\ k > MinDefaultCols => k * k <= c
            /\ k < MaxDefaultCols => c < (k + 1) * (k + 1)

C12_Witness ==
    GridBuilt /\ grid.ncolsArg = 0 /\ grid.figcount = 35 /\ grid.smp.ncols = 5

----------------------------------------------------------------------------
(* Further properties of the pager, checked under Spec *)

\* C13: between calls the identifier list is as long as the current page's
\* index of the next free subplot.
C13_IdsMatchIndex == Len(itemid) = smp.i

\* C14, as claimed: every savefig() that rasterizes a page (and returns)
\* increments the page index by one within that flush, and a savefig() on an
\* empty page leaves it unchanged.
C14_FlushIncrementsIndex ==
    [][/\ (rasters' = rasters + 1 /\ err' = "none") => mp_i' = mp_i + 1
       /\ (nflush' = nflush + 1 /\ smp.i = 0) => mp_i' = mp_i]_vars

\* C14, amended: savefig() never changes the page index; pop increments it
\* by one exactly when its overflow flush has returned, and leaves it
\* unchanged otherwise.
C14_IndexMovesOnlyInPop ==
    [][/\ nflush' = nflush + 1 => mp_i' = mp_i
       /\ calls' = calls + 1 =>
             IF rasters' = rasters + 1 /\ err' = "none"
             THEN mp_i' = mp_i + 1 /\ montages' = Append(montages, mp_i)
             ELSE mp_i' = mp_i
       /\ lastop' = "del" => mp_i' = mp_i]_vars

C14_Witness ==
    /\ lastop = "flush" /\ err = "none" /\ ~raised
    /\ montages = <<0, 1>> /\ mp_i = 1

\* C17: when a pager on which savefig() was called is discarded, the figure
\* of every page it created (pages 0.._i) has been released exactly once.
C17_EveryFigureReleasedOnce ==
    (lastop = "del" /\ nflush >= 1) =>
        \A k \in 0..mp_i :
            Cardinality({j \in 1..Len(events) :
                           events[j].e = "release" /\ events[j].page = k}) = 1

\* the place of each step in the order the claim gives
Rank(e) ==
    CASE e = "bg" -> 1
      [] e = "raster" -> 2
      [] e = "release" -> 3
      [] e = "montage" -> 4
      [] e = "crop" -> 5
      [] e = "row" -> 6
      [] e = "csvflush" -> 7
      [] OTHER -> 8

EventsOf(e, k) == {j \in 1..Len(events) : events[j].e = e /\ events[j].page = k}

\* C18: the steps of a flush come in order: background colour, rasterization,
\* montage file, the crops in slot order, the manifest rows in slot order,
\* flush of the csv stream; rows are written only after all crops of the page
\* (one row per crop), a flush that returned has flushed the stream, and the
\* pages follow each other in the log.
C18_FlushStepsInOrder ==
    /\ \A a, b \in 1..Len(events) :
          a < b =>
            /\ events[a].page <= events[b].page
            /\ events[a].page = events[b].page =>
                  /\ Rank(events[a].e) <= Rank(events[b].e)
                  /\ (events[a].e = events[b].e /\ events[a].e \in {"crop", "row"})
                        => events[a].slot < events[b].slot
    /\ \A k \in 0..mp_i :
          /\ EventsOf("raster", k) # {} => EventsOf("bg", k) # {}
          /\ EventsOf("crop", k) # {} => Cardinality(EventsOf("montage", k)) = 1
          /\ EventsOf("row", k) # {} =>
                /\ Cardinality(EventsOf("row", k)) = Cardinality(EventsOf("crop", k))
                /\ Cardinality(EventsOf("csvflush", k)) = 1
          /\ (\E j \in 1..Len(manifest) : manifest[j].montage = k)
                <=> EventsOf("row", k) # {}

C18_Witness ==
    /\ lastop = "flush" /\ err = "none" /\ Len(manifest) = 3
    /\ EventsOf("csvflush", 0) # {} /\ EventsOf("csvflush", 1) # {}
    /\ Cardinality(EventsOf("crop", 0)) = 2

NoDuplicates(s) == \A a, b \in 1..Len(s) : a # b => s[a] # s[b]

\* C19: as long as no call has raised, the montages were written under the
\* page indices 0, 1, 2, ... in turn, no montage or crop file was written
\* twice, and every manifest row names a montage and a crop that were written.
C19_FilesWrittenOnce ==
    ~raised =>
        /\ montages = [j \in 1..Len(montages) |-> j - 1]
        /\ NoDuplicates(crops)
        /\ \A r \in 1..Len(manifest) :
              /\ manifest[r].individual = <<manifest[r].montage, manifest[r].subplot>>
              /\ \E j \in 1..Len(montages) : montages[j] = manifest[r].montage
              /\ \E j \in 1..Len(crops) : crops[j] = manifest[r].individual

C19_Witness ==
    /\ ~raised /\ lastop = "flush" /\ montages = <<0, 1>>
    /\ Len(crops) = 3 /\ Len(manifest) = 3

\* C20: a pop that raises (the first call of the run to do so) leaves the
\* identifier list, the page index and the current page's index of the next
\* free subplot as they were.
C20_FailedPopChangesNothing ==
    [][(~raised /\ calls' = calls + 1 /\ err' # "none") =>
          /\ itemid' = itemid
          /\ mp_i' = mp_i
          /\ smp'.i = smp.i]_vars

----------------------------------------------------------------------------
(* Further properties of the chopping, checked under SpecDec *)

\* C15: the crops are laid out row-major with the full column count:
\* true_nrows = ceil(n / ncols), true_ncols = min(ncols, n), and slot i is cut
\* at row i // ncols, column i % ncols, the position _save_csv records.
C15_CropsAreRowMajor ==
    DecRunning =>
        /\ dec.err # "ZeroDivisionError"
        /\ dec.h = dec.H \div CeilDiv(dec.n, dec.ncols)
        /\ dec.w = dec.W \div Min(dec.ncols, dec.n)
        /\ \A j \in 1..Len(dec.boxes) :
              LET row == (j - 1) \div dec.ncols
                  col == (j - 1) % dec.ncols
              IN  dec.boxes[j] = [left |-> col * dec.w, up |-> row * dec.h,
                                  right |-> col * dec.w + dec.w,
                                  bottom |-> row * dec.h + dec.h]

\* C16: the padded box is the content box grown by 4 pixels on each side and
\* clamped to the crop: left = max(l - 4, 0), up = max(u - 4, 0),
\* right = min(r + 4, w), bottom = min(b + 4, h), hence within (0, 0, w, h).
C16_PadClampsToCrop ==
    (DecRunning /\ dec.tight # <<>>) =>
        LET b == dec.tight[1]
            q == dec.bbox
        IN  /\ b.left = Max(q[1] - PadPixels, 0)
            /\ b.up = Max(q[2] - PadPixels, 0)
            /\ b.right = Min(q[3] + PadPixels, dec.w)
            /\ b.bottom = Min(q[4] + PadPixels, dec.h)
            /\ 0 <= b.left /\ b.left <= b.right /\ b.right <= dec.w
            /\ 0 <= b.up /\ b.up <= b.bottom /\ b.bottom <= dec.h

====
